---- MODULE Spec2Model ----
(***************************************************************************)
(* Model of darkseid's FileNameParser (src/darkseid/filenameparser.py).    *)
(*                                                                         *)
(* A Python str is modelled as a sequence of one-character strings.  The   *)
(* regular expressions of the source are modelled by operators that        *)
(* compute the same match (leftmost, greedy or lazy as written) over such  *)
(* sequences.  Texts are single-line: "." of the source's patterns never   *)
(* meets a line break.                                                     *)
(***************************************************************************)
EXTENDS Integers, Sequences, FiniteSets, TLC

VARIABLES
    filename,     \* argument of the latest parseFilename call
    series,       \* instance attributes; Unset until first assigned
    volume,
    issue,
    issue_count,
    year,
    remainder,
    outcome,      \* "none" | "returned" | "raised" : how the latest call ended
    calls         \* number of parseFilename calls made on the instance

vars == <<filename, series, volume, issue, issue_count, year, remainder, outcome, calls>>

---------------------------------------------------------------------------
(* Character classes *)

AsciiDigits == {"0", "1", "2", "3", "4", "5", "6", "7", "8", "9"}

\* A decimal digit outside ASCII (ARABIC-INDIC DIGIT THREE): Python's \d
\* matches it on str patterns, [0-9] does not.
WideDigit == "U+0663"

Lower == {"a", "b", "c", "d", "e", "f", "g", "h", "i", "j", "k", "l", "m",
          "n", "o", "p", "q", "r", "s", "t", "u", "v", "w", "x", "y", "z"}

Upper == {"A", "B", "C", "D", "E", "F", "G", "H", "I", "J", "K", "L", "M",
          "N", "O", "P", "Q", "R", "S", "T", "U", "V", "W", "X", "Y", "Z"}

Tab == "\t"

\* \s of re, and the whitespace of str.split() / str.strip()
IsSpace(c) == c \in {" ", Tab}

\* \d of re on a str pattern
AllDigits == AsciiDigits \cup {WideDigit}
IsDigit(c) == c \in AllDigits

\* [0-9]
IsAsciiDigit(c) == c \in AsciiDigits

\* str.lower() on one character
LowerOf(c) ==
    CASE c = "A" -> "a" [] c = "B" -> "b" [] c = "C" -> "c" [] c = "D" -> "d"
      [] c = "E" -> "e" [] c = "F" -> "f" [] c = "G" -> "g" [] c = "H" -> "h"
      [] c = "I" -> "i" [] c = "J" -> "j" [] c = "K" -> "k" [] c = "L" -> "l"
      [] c = "M" -> "m" [] c = "N" -> "n" [] c = "O" -> "o" [] c = "P" -> "p"
      [] c = "Q" -> "q" [] c = "R" -> "r" [] c = "S" -> "s" [] c = "T" -> "t"
      [] c = "U" -> "u" [] c = "V" -> "v" [] c = "W" -> "w" [] c = "X" -> "x"
      [] c = "Y" -> "y" [] c = "Z" -> "z" [] OTHER -> c

---------------------------------------------------------------------------
(* str helpers *)

MinOf(S) == CHOOSE x \in S : \A y \in S : x <= y
MaxOf(S) == CHOOSE x \in S : \A y \in S : x >= y

\* s[a:b] of Python (0-based, b exclusive), for 0 <= a and b <= len(s)
Slice(s, a, b) == SubSeq(s, a + 1, b)

\* does p occur in s at (1-based) position i
StartsAt(s, p, i) ==
    /\ i >= 1
    /\ i + Len(p) - 1 <= Len(s)
    /\ \A k \in 1..Len(p) : s[i + k - 1] = p[k]

\* 1-based position of the first occurrence of p in s, 0 when there is none
Find(s, p) ==
    LET hits == {i \in 1..Len(s) : StartsAt(s, p, i)}
    IN  IF hits = {} THEN 0 ELSE MinOf(hits)

\* p in s
Contains(s, p) == \E i \in 1..Len(s) : StartsAt(s, p, i)

\* s.count(p): occurrences counted left to right without overlap
RECURSIVE CountFrom(_, _, _)
CountFrom(s, p, i) ==
    IF i + Len(p) - 1 > Len(s) THEN 0
    ELSE IF StartsAt(s, p, i) THEN 1 + CountFrom(s, p, i + Len(p))
    ELSE CountFrom(s, p, i + 1)

Count(s, p) == CountFrom(s, p, 1)

\* s.replace(old, new): every occurrence, left to right without overlap
RECURSIVE ReplaceFrom(_, _, _, _)
ReplaceFrom(s, old, new, i) ==
    IF i > Len(s) THEN <<>>
    ELSE IF StartsAt(s, old, i) THEN new \o ReplaceFrom(s, old, new, i + Len(old))
    ELSE <<s[i]>> \o ReplaceFrom(s, old, new, i + 1)

ReplaceAll(s, old, new) == ReplaceFrom(s, old, new, 1)

\* s.replace(old, new, 1)
ReplaceFirst(s, old, new) ==
    LET i == Find(s, old)
    IN  IF i = 0 THEN s
        ELSE SubSeq(s, 1, i - 1) \o new \o SubSeq(s, i + Len(old), Len(s))

\* s.split(sep, 1)[1] for a sep that occurs in s
AfterFirst(s, sep) == SubSeq(s, Find(s, sep) + Len(sep), Len(s))

\* s.strip()
Strip(s) ==
    LET keep == {i \in 1..Len(s) : ~IsSpace(s[i])}
    IN  IF keep = {} THEN <<>> ELSE SubSeq(s, MinOf(keep), MaxOf(keep))

\* s.lstrip("0")
LStripZeros(s) ==
    LET keep == {i \in 1..Len(s) : s[i] # "0"}
    IN  IF keep = {} THEN <<>> ELSE SubSeq(s, MinOf(keep), Len(s))

\* s.lower()
LowerStr(s) == [i \in 1..Len(s) |-> LowerOf(s[i])]

\* end (1-based, inclusive) of the run of characters of the set S that
\* starts at i
RECURSIVE RunEnd(_, _, _)
RunEnd(s, i, S) ==
    IF i + 1 <= Len(s) /\ s[i + 1] \in S THEN RunEnd(s, i + 1, S) ELSE i

\* end (1-based, inclusive) of the run of non-whitespace that starts at i
RECURSIVE WordEnd(_, _)
WordEnd(s, i) ==
    IF i + 1 <= Len(s) /\ ~IsSpace(s[i + 1]) THEN WordEnd(s, i + 1) ELSE i

\* s.split(): the whitespace-delimited words of s, in order
RECURSIVE WordsFrom(_, _)
WordsFrom(s, i) ==
    IF i > Len(s) THEN <<>>
    ELSE IF IsSpace(s[i]) THEN WordsFrom(s, i + 1)
    ELSE LET e == WordEnd(s, i)
         IN  <<SubSeq(s, i, e)>> \o WordsFrom(s, e + 1)

Split(s) == WordsFrom(s, 1)

\* s.rsplit(" ", 1)[0]
RSplitSpaceHead(s) ==
    LET sp == {i \in 1..Len(s) : s[i] = " "}
    IN  IF sp = {} THEN s ELSE SubSeq(s, 1, MaxOf(sp) - 1)

---------------------------------------------------------------------------
(* FileNameParser.repl and the length-preserving substitutions built on it *)

\* repl(m): as many spaces as the match is long
repl(n) == [i \in 1..n |-> " "]

\* s with positions i..j (1-based, inclusive) replaced by repl of the span
BlankSpan(s, i, j) ==
    SubSeq(s, 1, i - 1) \o repl(j - i + 1) \o SubSeq(s, j + 1, Len(s))

\* re.sub(sep + ".*", self.repl, s): the first occurrence of sep and all
\* that follows it on the line is blanked
BlankAfterFirst(s, sep) ==
    LET i == Find(s, sep)
    IN  IF i = 0 THEN s ELSE BlankSpan(s, i, Len(s))

\* re.sub("  +", self.repl, s): each run of two or more spaces is replaced
\* by as many spaces
RECURSIVE BlankSpaceRuns(_, _)
BlankSpaceRuns(s, i) ==
    IF i > Len(s) THEN s
    ELSE IF StartsAt(s, <<" ", " ">>, i)
    THEN LET e == RunEnd(s, i, {" "})
         IN  BlankSpaceRuns(BlankSpan(s, i, e), e + 1)
    ELSE BlankSpaceRuns(s, i + 1)

\* re.sub(r"\(.*?\)", self.repl, s) and the same for [ ]: each span from
\* an opening delimiter to the nearest closing one after it is blanked
RECURSIVE BlankDelimited(_, _, _, _)
BlankDelimited(s, open, close, i) ==
    IF i > Len(s) THEN s
    ELSE IF s[i] = open
    THEN LET js == {j \in (i + 1)..Len(s) : s[j] = close}
         IN  IF js = {} THEN s
             ELSE BlankDelimited(BlankSpan(s, i, MinOf(js)), open, close, MinOf(js) + 1)
    ELSE BlankDelimited(s, open, close, i + 1)

\* re.sub(r"\(.*?\)", "", s): the same spans, deleted
RECURSIVE DeleteDelimited(_, _, _, _)
DeleteDelimited(s, open, close, i) ==
    IF i > Len(s) THEN <<>>
    ELSE IF s[i] = open
    THEN LET js == {j \in (i + 1)..Len(s) : s[j] = close}
         IN  IF js = {} THEN SubSeq(s, i, Len(s))
             ELSE DeleteDelimited(s, open, close, MinOf(js) + 1)
    ELSE <<s[i]>> \o DeleteDelimited(s, open, close, i + 1)

\* re.sub(r"of [\d]+", self.repl, s)
RECURSIVE BlankOfCount(_, _)
BlankOfCount(s, i) ==
    IF i > Len(s) THEN s
    ELSE IF StartsAt(s, <<"o", "f", " ">>, i) /\ i + 3 <= Len(s) /\ IsDigit(s[i + 3])
    THEN LET e == RunEnd(s, i + 3, AllDigits)
         IN  BlankOfCount(BlankSpan(s, i, e), e + 1)
    ELSE BlankOfCount(s, i + 1)

\* PlusToSpace deleting each "+" instead of turning it into a space
PlusToSpace_Drop(s) == SelectSeq(s, LAMBDA c : c # "+")

\* filename.replace("+", " ")
PlusToSpace(s) == [i \in 1..Len(s) |-> IF s[i] = "+" THEN " " ELSE s[i]]

\* FileNameParser.fixSpaces
fixSpaces(string, remove_dashes) ==
    LET placeholders == IF remove_dashes THEN {"-", "_"} ELSE {"_"}
        blanked == [i \in 1..Len(string) |->
                       IF string[i] \in placeholders THEN " " ELSE string[i]]
    IN  BlankSpaceRuns(blanked, 1)

---------------------------------------------------------------------------
(* parseFilename, lines 237-248: stem, URL decoding, double-encoding repair *)

\* s.split("/")
RECURSIVE SplitSlash(_, _, _)
SplitSlash(s, i, cur) ==
    IF i > Len(s) THEN <<cur>>
    ELSE IF s[i] = "/" THEN <<cur>> \o SplitSlash(s, i + 1, <<>>)
    ELSE SplitSlash(s, i + 1, Append(cur, s[i]))

\* pathlib.PurePosixPath(path).stem: the final component (empty and "."
\* components dropped), cut before its last "." unless that "." is its
\* first or its last character
Stem(path) ==
    LET parts == SelectSeq(SplitSlash(path, 1, <<>>),
                           LAMBDA c : c # <<>> /\ c # <<".">>)
        name  == IF parts = <<>> THEN <<>> ELSE parts[Len(parts)]
        dots  == {i \in 1..Len(name) : name[i] = "."}
        last  == IF dots = {} THEN 0 ELSE MaxOf(dots)
    IN  IF 1 < last /\ last < Len(name) THEN SubSeq(name, 1, last - 1) ELSE name

\* The percent escapes the inputs of this model carry, with what they decode to
Escapes ==
    {<<"2", "8", "(">>, <<"2", "9", ")">>, <<"2", "0", " ">>,
     <<"2", "3", "#">>, <<"2", "B", "+">>, <<"2", "b", "+">>,
     <<"5", "F", "_">>, <<"5", "f", "_">>, <<"2", "D", "-">>, <<"2", "d", "-">>}

\* urllib.parse.unquote: "%" followed by two hex digits becomes the
\* character they encode; any other "%" stays
RECURSIVE Unquote(_, _)
Unquote(s, i) ==
    IF i > Len(s) THEN <<>>
    ELSE LET hit == IF s[i] = "%" /\ i + 2 <= Len(s)
                    THEN {e \in Escapes : e[1] = s[i + 1] /\ e[2] = s[i + 2]}
                    ELSE {}
         IN  IF hit = {} THEN <<s[i]>> \o Unquote(s, i + 1)
             ELSE <<(CHOOSE e \in hit : TRUE)[3]>> \o Unquote(s, i + 3)

Enc28 == <<"_", "2", "8">>
Enc29 == <<"_", "2", "9">>

\* RepairDoubleEncoding triggered by one occurrence of each already
RepairDoubleEncoding_Once(s) ==
    IF Count(s, Enc28) > 0 /\ Count(s, Enc29) > 0
    THEN ReplaceAll(ReplaceAll(s, Enc28, <<"(">>), Enc29, <<")">>)
    ELSE s

\* lines 246-248
RepairDoubleEncoding(s) ==
    IF Count(s, Enc28) > 1 /\ Count(s, Enc29) > 1
    THEN ReplaceAll(ReplaceAll(s, Enc28, <<"(">>), Enc29, <<")">>)
    ELSE s

\* the text handed to getIssueNumber and the later passes
Preprocess(path) == RepairDoubleEncoding(Unquote(Stem(path), 1))

---------------------------------------------------------------------------
(* getIssueNumber *)

DashDash == <<"-", "-">>
UnderUnder == <<"_", "_">>

\* lines 63-71 and 142-150
TruncateAtSeparator(s) ==
    IF Contains(s, DashDash) THEN BlankAfterFirst(s, DashDash)
    ELSE IF Contains(s, UnderUnder) THEN BlankAfterFirst(s, UnderUnder)
    ELSE s

\* lines 63-84: the cleaned copy of the filename, of the same length
CleanForIssue(s) ==
    LET a == TruncateAtSeparator(s)
        b == PlusToSpace(a)
        c == BlankDelimited(b, "(", ")", 1)
        d == BlankDelimited(c, "[", "]", 1)
        e == fixSpaces(d, TRUE)
    IN  BlankOfCount(e, 1)

\* lines 92-94: re.finditer(r"\S+"): (word, m.start(), m.end())
RECURSIVE WordList(_, _)
WordList(s, i) ==
    IF i > Len(s) THEN <<>>
    ELSE IF IsSpace(s[i]) THEN WordList(s, i + 1)
    ELSE LET e == WordEnd(s, i)
         IN  <<[text |-> SubSeq(s, i, e), start |-> i - 1, end |-> e]>>
             \o WordList(s, e + 1)

\* ([0-9]*\.[0-9]+|[0-9]+) matches in w at position i: a prefix match, so
\* a digit, or "." and a digit, is what it takes
NumberAt(w, i) ==
    /\ i <= Len(w)
    /\ \/ IsAsciiDigit(w[i])
       \/ w[i] = "." /\ i + 1 <= Len(w) /\ IsAsciiDigit(w[i + 1])

\* [-]?(number)(\w*)
SignedNumberAt(w, i) ==
    \/ NumberAt(w, i)
    \/ i <= Len(w) /\ w[i] = "-" /\ NumberAt(w, i + 1)

\* re.match(r"#[-]?(([0-9]*\.[0-9]+|[0-9]+)(\w*))", w)
HashNumber(w) == Len(w) >= 1 /\ w[1] = "#" /\ SignedNumberAt(w, 2)

\* re.match(r"[-]?(([0-9]*\.[0-9]+|[0-9]+)(\w*))", w)
BareNumber(w) == SignedNumberAt(w, 1)

\* re.match(r"#\S+", w)
HashAny(w) == Len(w) >= 2 /\ w[1] = "#"

NoIssue == [issue |-> <<>>, start |-> 0, end |-> 0]

\* lines 126-133
IssueOf(w) ==
    [issue |-> IF w.text[1] = "#" THEN Tail(w.text) ELSE w.text,
     start |-> w.start,
     end   |-> w.end]

\* PickIssue without the bail-out on a single word: the lone word stays a
\* candidate
PickIssue_NoBail(all_words) ==
    IF Len(all_words) = 0 THEN NoIssue
    ELSE LET word_list == IF Len(all_words) > 1 THEN Tail(all_words) ELSE all_words
             n     == Len(word_list)
             tier1 == {k \in 1..n : HashNumber(word_list[k].text)}
             tier3 == {k \in 1..n : HashAny(word_list[k].text)}
         IN  IF tier1 # {} THEN IssueOf(word_list[MaxOf(tier1)])
             ELSE IF BareNumber(word_list[n].text) THEN IssueOf(word_list[n])
             ELSE IF tier3 # {} THEN IssueOf(word_list[MaxOf(tier3)])
             ELSE NoIssue

\* PickIssue with the last word tried before the "#" number words
PickIssue_LastWordFirst(all_words) ==
    IF Len(all_words) <= 1 THEN NoIssue
    ELSE LET word_list == Tail(all_words)
             n     == Len(word_list)
             tier1 == {k \in 1..n : HashNumber(word_list[k].text)}
             tier3 == {k \in 1..n : HashAny(word_list[k].text)}
         IN  IF BareNumber(word_list[n].text) THEN IssueOf(word_list[n])
             ELSE IF tier1 # {} THEN IssueOf(word_list[MaxOf(tier1)])
             ELSE IF tier3 # {} THEN IssueOf(word_list[MaxOf(tier3)])
             ELSE NoIssue

\* lines 97-133, on the word list of the cleaned filename
PickIssue(all_words) ==
    IF Len(all_words) <= 1 THEN NoIssue
    ELSE LET word_list == Tail(all_words)
             n     == Len(word_list)
             tier1 == {k \in 1..n : HashNumber(word_list[k].text)}
             tier3 == {k \in 1..n : HashAny(word_list[k].text)}
         IN  IF tier1 # {} THEN IssueOf(word_list[MaxOf(tier1)])
             ELSE IF BareNumber(word_list[n].text) THEN IssueOf(word_list[n])
             ELSE IF tier3 # {} THEN IssueOf(word_list[MaxOf(tier3)])
             ELSE NoIssue

getIssueNumber(fname) == PickIssue(WordList(CleanForIssue(fname), 1))

---------------------------------------------------------------------------
(* getSeriesName *)

IsV(c) == c \in {"v", "V"}
\* IsVol matching the lower-case marker only
IsVol_LowerOnly(s, i) ==
    /\ i >= 1 /\ i + 2 <= Len(s)
    /\ s[i] = "v" /\ s[i + 1] = "o" /\ s[i + 2] = "l"

IsVol(s, i) ==
    /\ i >= 1 /\ i + 2 <= Len(s)
    /\ s[i] \in {"v", "V"} /\ s[i + 1] \in {"o", "O"} /\ s[i + 2] \in {"l", "L"}

NoVolume == [found |-> FALSE, series |-> <<>>, volume |-> <<>>]

\* re.search(r"(.+)([vV]|[Vv][oO][Ll]\.?\s?)(\d+)\s*$", s), line 168.
\* group 3 is the run of digits that ends the text (trailing whitespace
\* apart); group 2 is the marker that ends right before that run; group 1 is
\* all the text before the marker and must not be empty.  The markers end
\* in different characters, so at most one fits.
VolumeMatch(s) ==
    LET solid == {i \in 1..Len(s) : ~IsSpace(s[i])}
        e     == IF solid = {} THEN 0 ELSE MaxOf(solid)
    IN  IF e = 0 \/ ~IsDigit(s[e]) THEN NoVolume
        ELSE LET nd == {i \in 1..e : ~IsDigit(s[i])}
                 r  == IF nd = {} THEN 0 ELSE MaxOf(nd)   \* end of the text before the digits
                 mlen ==
                     IF r = 0 THEN 0
                     ELSE IF IsV(s[r]) THEN 1
                     ELSE IF IsVol(s, r - 2) THEN 3
                     ELSE IF s[r] = "." /\ IsVol(s, r - 3) THEN 4
                     ELSE IF IsSpace(s[r]) /\ IsVol(s, r - 3) THEN 4
                     ELSE IF IsSpace(s[r]) /\ r >= 2 /\ s[r - 1] = "." /\ IsVol(s, r - 4) THEN 5
                     ELSE 0
             IN  IF mlen = 0 \/ r - mlen < 1 THEN NoVolume
                 ELSE [found  |-> TRUE,
                       series |-> SubSeq(s, 1, r - mlen),
                       volume |-> SubSeq(s, r + 1, e)]

\* (dddd) | (dddd-) | (dddd-dddd) at position i of w, line 177
YearGroupAt(w, i) ==
    /\ i + 5 <= Len(w)
    /\ w[i] = "("
    /\ \A k \in 1..4 : IsDigit(w[i + k])
    /\ \/ w[i + 5] = ")"
       \/ w[i + 5] = "-" /\ i + 6 <= Len(w) /\ w[i + 6] = ")"
       \/ /\ w[i + 5] = "-" /\ i + 10 <= Len(w)
          /\ \A k \in 6..9 : IsDigit(w[i + k])
          /\ w[i + 10] = ")"

\* group 2 of re.search(r"(\()(\d{4})(-(\d{4}|)|)(\))", last_word), or ""
YearOfWord(w) ==
    LET hits == {i \in 1..Len(w) : YearGroupAt(w, i)}
    IN  IF hits = {} THEN <<>> ELSE SubSeq(w, MinOf(hits) + 1, MinOf(hits) + 4)

one_shot_words ==
    {<<"t", "p", "b">>, <<"o", "s">>,
     <<"o", "n", "e", "-", "s", "h", "o", "t">>,
     <<"o", "g", "n">>, <<"g", "n">>}

\* lines 186-193; the caller has made sure series has a word
StripOneShot(s) ==
    LET words == Split(s)
    IN  IF LowerStr(words[Len(words)]) \in one_shot_words
        THEN RSplitSpaceHead(s)
        ELSE s

\* lines 138-155: tmpstr, the text the series is searched in
SeriesText(fname, issue_start) ==
    LET cut == IF issue_start # 0 THEN Slice(fname, 0, issue_start) ELSE fname
    IN  fixSpaces(PlusToSpace(TruncateAtSeparator(cut)), FALSE)

\* line 165
RemoveParens(s) == DeleteDelimited(s, "(", ")", 1)

\* getSeriesName.  series.split()[-1] raises IndexError when the text has
\* no word, and the except clauses around it catch ValueError only: the
\* call then raises.
getSeriesName(fname, issue_start) ==
    LET tmpstr == SeriesText(fname, issue_start)
        words  == Split(tmpstr)
    IN  IF words = <<>> THEN [raised |-> TRUE, series |-> <<>>, volume |-> <<>>]
        ELSE
        LET last_word == words[Len(words)]
            noparen   == RemoveParens(tmpstr)
            vm        == VolumeMatch(noparen)
            vol       == IF vm.found THEN vm.volume ELSE YearOfWord(last_word)
            stripped  == Strip(IF vm.found THEN vm.series ELSE noparen)
        IN  IF issue_start = 0 /\ Split(stripped) = <<>>
            THEN [raised |-> TRUE, series |-> <<>>, volume |-> <<>>]
            ELSE [raised |-> FALSE,
                  series |-> IF issue_start = 0 THEN StripOneShot(stripped)
                             ELSE stripped,
                  volume |-> Strip(vol)]

---------------------------------------------------------------------------
(* getYear, getIssueCount, getRemainder *)

\* (\(\d\d\d\d\))|(--\d\d\d\d--) at position i of s; both are six or
\* eight characters around four digits
YearMatchLen(s, i) ==
    IF /\ i + 5 <= Len(s) /\ s[i] = "(" /\ s[i + 5] = ")"
       /\ \A k \in 1..4 : IsDigit(s[i + k])
    THEN 6
    ELSE IF /\ i + 7 <= Len(s) /\ StartsAt(s, DashDash, i) /\ StartsAt(s, DashDash, i + 6)
            /\ \A k \in 2..5 : IsDigit(s[i + k])
    THEN 8
    ELSE 0

\* getYear
getYear(fname, issue_end) ==
    LET s    == Slice(fname, issue_end, Len(fname))
        hits == {i \in 1..Len(s) : YearMatchLen(s, i) > 0}
    IN  IF hits = {} THEN <<>>
        ELSE LET i == MinOf(hits)
                 m == SubSeq(s, i, i + YearMatchLen(s, i) - 1)
             IN  SelectSeq(m, IsAsciiDigit)     \* re.sub("[^0-9]", "", year)

\* IsOf without re.IGNORECASE
IsOf_LowerOnly(s, i) == i >= 1 /\ i + 1 <= Len(s) /\ s[i] = "o" /\ s[i + 1] = "f"

IsOf(s, i) == i >= 1 /\ i + 1 <= Len(s) /\ s[i] \in {"o", "O"} /\ s[i + 1] \in {"f", "F"}

\* (?<=\sof\s)\d+(?=\s) matches with the digits starting at i
CountPlainAt(s, i) ==
    /\ i >= 5 /\ IsDigit(s[i])
    /\ IsSpace(s[i - 1]) /\ IsOf(s, i - 3) /\ IsSpace(s[i - 4])
    /\ LET e == RunEnd(s, i, AllDigits) IN e + 1 <= Len(s) /\ IsSpace(s[e + 1])

\* (?<=\(of\s)\d+(?=\)) matches with the digits starting at i
CountParenAt(s, i) ==
    /\ i >= 5 /\ IsDigit(s[i])
    /\ IsSpace(s[i - 1]) /\ IsOf(s, i - 3) /\ s[i - 4] = "("
    /\ LET e == RunEnd(s, i, AllDigits) IN e + 1 <= Len(s) /\ s[e + 1] = ")"

\* getIssueCount
getIssueCount(fname, issue_end) ==
    LET tmpstr == fixSpaces(Slice(fname, issue_end, Len(fname)), TRUE)
        plain  == {i \in 1..Len(tmpstr) : CountPlainAt(tmpstr, i)}
        paren  == {i \in 1..Len(tmpstr) : CountParenAt(tmpstr, i)}
        at     == IF plain # {} THEN MinOf(plain)
                  ELSE IF paren # {} THEN MinOf(paren) ELSE 0
    IN  IF at = 0 THEN <<>>
        ELSE LStripZeros(SubSeq(tmpstr, at, RunEnd(tmpstr, at, AllDigits)))

\* RemainderBase looking for "__" before "--"
RemainderBase_UnderFirst(fname, issue_end) ==
    IF Contains(fname, UnderUnder) THEN AfterFirst(fname, UnderUnder)
    ELSE IF Contains(fname, DashDash) THEN AfterFirst(fname, DashDash)
    ELSE IF issue_end # 0 THEN Slice(fname, issue_end, Len(fname))
    ELSE <<>>

\* lines 214-221: the text the remainder is made of
RemainderBase(fname, issue_end) ==
    IF Contains(fname, DashDash) THEN AfterFirst(fname, DashDash)
    ELSE IF Contains(fname, UnderUnder) THEN AfterFirst(fname, UnderUnder)
    ELSE IF issue_end # 0 THEN Slice(fname, issue_end, Len(fname))
    ELSE <<>>

\* lines 223-234: what is taken out of that text
CleanRemainder(base, yr, count, vol) ==
    LET a == fixSpaces(base, FALSE)
        b == IF vol # <<>> THEN ReplaceFirst(a, <<"V", "o", "l", ".">> \o vol, <<>>) ELSE a
        c == IF yr # <<>> THEN ReplaceFirst(b, yr, <<>>) ELSE b
        d == IF count # <<>> THEN ReplaceFirst(c, <<"o", "f", " ">> \o count, <<>>) ELSE c
        e == ReplaceAll(d, <<"(", ")">>, <<>>)
        f == ReplaceAll(e, <<" ", " ">>, <<" ">>)
    IN  Strip(f)

\* getRemainder
getRemainder(fname, yr, count, vol, issue_end) ==
    CleanRemainder(RemainderBase(fname, issue_end), yr, count, vol)

---------------------------------------------------------------------------
(* parseFilename *)

\* NormalizeIssue without the "0" put before a leading "."
NormalizeIssue_NoPointFix(iss) ==
    IF iss = <<>> THEN iss
    ELSE LET z == LStripZeros(iss)
         IN  IF z = <<>> THEN <<"0">> ELSE z

\* lines 263-269
NormalizeIssue(iss) ==
    IF iss = <<>> THEN iss
    ELSE LET z == LStripZeros(iss)
             n == IF z = <<>> THEN <<"0">> ELSE z
         IN  IF n[1] = "." THEN <<"0">> \o n ELSE n

\* lines 254-255
IssueEnd(num_end, series_name) ==
    IF num_end = 0 THEN Len(series_name) ELSE num_end

\* The result of a call that returned, lines 257-269
Returning(fname, num, sn, issue_end, yr, count) ==
    [raised      |-> FALSE,
     issue       |-> NormalizeIssue(num.issue),
     series      |-> sn.series,
     volume      |-> sn.volume,
     year        |-> yr,
     issue_count |-> count,
     remainder   |-> getRemainder(fname, yr, count, sn.volume, issue_end)]

\* lines 257-258, with issue_end as lines 254-255 left it
AfterIssueEnd(fname, num, sn, issue_end) ==
    Returning(fname, num, sn, issue_end,
              getYear(fname, issue_end), getIssueCount(fname, issue_end))

\* lines 251-255.  When getSeriesName raises, self.issue holds
\* getIssueNumber's token and nothing else was assigned.
AfterSeriesName(fname, num, sn) ==
    IF sn.raised
    THEN [raised |-> TRUE, issue |-> num.issue, series |-> <<>>, volume |-> <<>>,
          year |-> <<>>, issue_count |-> <<>>, remainder |-> <<>>]
    ELSE AfterIssueEnd(fname, num, sn, IssueEnd(num.end, sn.series))

\* lines 250-251
AfterIssueNumber(fname, num) ==
    AfterSeriesName(fname, num, getSeriesName(fname, num.start))

\* lines 250-269, on the preprocessed filename
ParseStem(fname) == AfterIssueNumber(fname, getIssueNumber(fname))

\* What one call parseFilename(path) computes
ParseResult(path) == ParseStem(Preprocess(path))

\* An attribute no call has assigned yet
Unset == <<"<unset>">>

\* The assignments of one call whose computation is r
Assign(path, r) ==
    /\ filename' = path
    /\ calls' = calls + 1
    /\ issue' = r.issue
    /\ IF r.raised
       THEN /\ outcome' = "raised"
            /\ UNCHANGED <<series, volume, year, issue_count, remainder>>
       ELSE /\ outcome' = "returned"
            /\ series' = r.series
            /\ volume' = r.volume
            /\ year' = r.year
            /\ issue_count' = r.issue_count
            /\ remainder' = r.remainder

\* The action: one call parseFilename(path) on the instance
parseFilename(path) == Assign(path, ParseResult(path))

\* A FileNameParser() on which nothing was called: the class has no
\* __init__, so no attribute exists
Fresh ==
    /\ series = Unset /\ volume = Unset /\ issue = Unset
    /\ issue_count = Unset /\ year = Unset /\ remainder = Unset
    /\ outcome = "none" /\ calls = 0

---------------------------------------------------------------------------
(* The arguments the model calls parseFilename with *)

\* "Amazing Spider-Man #50 (2020).cbz"
ExSpiderMan ==
    <<"A", "m", "a", "z", "i", "n", "g", " ", "S", "p", "i", "d", "e", "r",
      "-", "M", "a", "n", " ", "#", "5", "0", " ", "(", "2", "0", "2", "0",
      ")", ".", "c", "b", "z">>

\* "Saga v2 #5.cbr"
ExSaga ==
    <<"S", "a", "g", "a", " ", "v", "2", " ", "#", "5", ".", "c", "b", "r">>

\* "Batman (1940) #1 of 12 (1940).cbz"
ExBatman ==
    <<"B", "a", "t", "m", "a", "n", " ", "(", "1", "9", "4", "0", ")", " ",
      "#", "1", " ", "o", "f", " ", "1", "2", " ", "(", "1", "9", "4", "0",
      ")", ".", "c", "b", "z">>

\* "OnlyOneWord.cbz"
ExOneWord ==
    <<"O", "n", "l", "y", "O", "n", "e", "W", "o", "r", "d", ".", "c", "b",
      "z">>

\* "Hero--extra junk here.cbz"
ExHero ==
    <<"H", "e", "r", "o", "-", "-", "e", "x", "t", "r", "a", " ", "j", "u",
      "n", "k", " ", "h", "e", "r", "e", ".", "c", "b", "z">>

\* ""
ExEmpty ==
    <<>>

\* "(2020)"
ExParenOnly ==
    <<"(", "2", "0", "2", "0", ")">>

\* "comics/A%20%231.cbz"
ExEscaped ==
    <<"c", "o", "m", "i", "c", "s", "/", "A", "%", "2", "0", "%", "2", "3",
      "1", ".", "c", "b", "z">>

\* "X_28a_29_28b_29 #1"
ExRepair ==
    <<"X", "_", "2", "8", "a", "_", "2", "9", "_", "2", "8", "b", "_", "2",
      "9", " ", "#", "1">>

\* "X_28a_29_28b #1"
ExOne29 ==
    <<"X", "_", "2", "8", "a", "_", "2", "9", "_", "2", "8", "b", " ", "#",
      "1">>

\* "X_28a_29 #1"
ExOne28 ==
    <<"X", "_", "2", "8", "a", "_", "2", "9", " ", "#", "1">>

\* "A #1 (19<U+0663><U+0663>).cbz"
ExWideYear ==
    <<"A", " ", "#", "1", " ", "(", "1", "9", WideDigit, WideDigit, ")",
      ".", "c", "b", "z">>

\* "A__B--C"
ExUnderThenDash ==
    <<"A", "_", "_", "B", "-", "-", "C">>

\* "A--B__C"
ExDashThenUnder ==
    <<"A", "-", "-", "B", "_", "_", "C">>

\* "A  tpb"
ExTwoSpaceTpb ==
    <<"A", " ", " ", "t", "p", "b">>

\* "A_+TPB"
ExPlusTpb ==
    <<"A", "_", "+", "T", "P", "B">>

\* "A #007.cbz"
Ex007 ==
    <<"A", " ", "#", "0", "0", "7", ".", "c", "b", "z">>

\* "A #000.cbz"
Ex000 ==
    <<"A", " ", "#", "0", "0", "0", ".", "c", "b", "z">>

\* "A #.5.cbz"
ExPoint5 ==
    <<"A", " ", "#", ".", "5", ".", "c", "b", "z">>

\* "v2 #5"
ExBareVolume ==
    <<"v", "2", " ", "#", "5">>

\* "A Vol.3 #2 (of 4) (2001).cbz"
ExVolDot ==
    <<"A", " ", "V", "o", "l", ".", "3", " ", "#", "2", " ", "(", "o", "f",
      " ", "4", ")", " ", "(", "2", "0", "0", "1", ")", ".", "c", "b", "z">>

\* "A VOL2 #3"
ExVolUpper ==
    <<"A", " ", "V", "O", "L", "2", " ", "#", "3">>

\* "A #1 of 2_x"
ExCountSep ==
    <<"A", " ", "#", "1", " ", "o", "f", " ", "2", "_", "x">>

\* "A #1 OF 012 x"
ExCountUpper ==
    <<"A", " ", "#", "1", " ", "O", "F", " ", "0", "1", "2", " ", "x">>

\* "A__v2 #5--x"
ExUnderVolume ==
    <<"A", "_", "_", "v", "2", " ", "#", "5", "-", "-", "x">>

\* "__A #007--x"
ExRaisedIssue ==
    <<"_", "_", "A", " ", "#", "0", "0", "7", "-", "-", "x">>

\* "A (1999) #1"
ExYearBefore ==
    <<"A", " ", "(", "1", "9", "9", "9", ")", " ", "#", "1">>

\* "A #1--1999--"
ExDashYear ==
    <<"A", " ", "#", "1", "-", "-", "1", "9", "9", "9", "-", "-">>

\* "A<TAB>tpb"
ExTabTpb ==
    <<"A", Tab, "t", "p", "b">>

\* "A 12"
ExBare12 ==
    <<"A", " ", "1", "2">>

\* "A #5 7"
ExHashBeforeBare ==
    <<"A", " ", "#", "5", " ", "7">>

\* "A #x 7"
ExLooseBeforeBare ==
    <<"A", " ", "#", "x", " ", "7">>

\* "A 7 #x"
ExBareBeforeLoose ==
    <<"A", " ", "7", " ", "#", "x">>

\* "A #1 #2 x"
ExTwoHash ==
    <<"A", " ", "#", "1", " ", "#", "2", " ", "x">>

\* "A #1! 7"
ExHashBang ==
    <<"A", " ", "#", "1", "!", " ", "7">>

\* "A+B #1"
ExPlusIssue ==
    <<"A", "+", "B", " ", "#", "1">>

\* "A 1 OF 12"
ExUpperOf ==
    <<"A", " ", "1", " ", "O", "F", " ", "1", "2">>

\* "A 1 of 12"
ExLowerOf ==
    <<"A", " ", "1", " ", "o", "f", " ", "1", "2">>

\* "Series #-1"
ExSignedIssue ==
    <<"S", "e", "r", "i", "e", "s", " ", "#", "-", "1">>

\* "(x) A"
ExLeadingParen ==
    <<"(", "x", ")", " ", "A">>

\* "A TPB"
ExTpb ==
    <<"A", " ", "T", "P", "B">>

Examples ==
    {ExSpiderMan, ExSaga, ExBatman, ExOneWord, ExHero, ExEmpty,
     ExParenOnly, ExEscaped, ExRepair, ExOne29, ExOne28, ExWideYear,
     ExUnderThenDash, ExDashThenUnder, ExTwoSpaceTpb, ExPlusTpb,
     Ex007, Ex000, ExPoint5, ExBareVolume, ExVolDot, ExVolUpper,
     ExCountSep, ExCountUpper, ExUnderVolume, ExRaisedIssue,
     ExYearBefore, ExDashYear, ExTabTpb, ExBare12, ExHashBeforeBare,
     ExLooseBeforeBare, ExBareBeforeLoose, ExTwoHash, ExHashBang,
     ExPlusIssue, ExUpperOf, ExLowerOf, ExSignedIssue, ExLeadingParen,
     ExTpb}

\* Bounds of the generated arguments
MaxLen == 4
MaxTokens == 3
MaxCalls == 2

\* every concatenation of at most n members of the set A of texts
RECURSIVE Concats(_, _)
Concats(A, n) ==
    IF n = 0 THEN {<<>>}
    ELSE LET shorter == Concats(A, n - 1)
         IN  shorter \cup {s \o a : s \in shorter, a \in A}

CharAlphabet == {"A", " ", "#", "0", "7", "."}

Tokens ==
    {<<"A">>, <<" ">>, <<"#", "1">>, <<"-", "-">>, <<"_", "_">>,
     <<"(", "1", "9", "9", "9", ")">>, <<"v", "2">>, <<"t", "p", "b">>,
     <<"o", "f", " ", "3">>, <<"_", "2", "8">>, <<"_", "2", "9">>}

Inputs ==
    Examples
      \cup Concats({<<c>> : c \in CharAlphabet}, MaxLen)
      \cup Concats(Tokens, MaxTokens)

---------------------------------------------------------------------------
(* Specifications *)

\* One call on a fresh instance, its argument drawn from Inputs
Init == Fresh /\ filename \in Inputs

Next == calls = 0 /\ parseFilename(filename)

Spec == Init /\ [][Next]_vars

\* Up to MaxCalls calls in a row on one instance
InitSeq == Fresh /\ filename = <<>>

NextSeq == calls < MaxCalls /\ \E path \in Examples : parseFilename(path)

SpecSeq == InitSeq /\ [][NextSeq]_vars

---------------------------------------------------------------------------
(* Properties *)

IsText(x) == x # Unset

Returned == calls > 0 /\ outcome = "returned"

\* the text the passes work on in the latest call
Worked == Preprocess(filename)

\* C1: parseFilename never raises: after every call all six attributes
\* hold text.  (Stated as claimed; the empty stem refutes it.)
C1_NeverRaises ==
    calls > 0 =>
        /\ outcome = "returned"
        /\ IsText(series) /\ IsText(volume) /\ IsText(issue)
        /\ IsText(issue_count) /\ IsText(year) /\ IsText(remainder)

\* what a fresh instance holds after one call parseFilename(path)
FreshFields(path) ==
    LET r == ParseResult(path)
    IN  IF r.raised THEN <<Unset, Unset, r.issue, Unset, Unset, Unset>>
        ELSE <<r.series, r.volume, r.issue, r.issue_count, r.year, r.remainder>>

\* C2: no hidden state: after any call in a sequence of calls the six
\* attributes are what a fresh instance holds after that call alone.
\* (Stated as claimed; a call that raises after an earlier call refutes it.)
C2_NoHiddenState ==
    calls > 0 =>
        <<series, volume, issue, issue_count, year, remainder>> = FreshFields(filename)

\* a non-empty text of letters only
PlainWord(s) == s # <<>> /\ \A i \in 1..Len(s) : s[i] \in Lower \cup Upper

\* C3: single-word abort: when the cleaned filename has at most one
\* whitespace-delimited word, getIssueNumber returns ("", 0, 0), and so
\* the issue attribute is ""; a stem that is one plain word parses to
\* issue "" and series equal to the word.
C3_SingleWordAbort ==
    calls > 0 =>
        /\ Len(Split(CleanForIssue(Worked))) <= 1 =>
               /\ getIssueNumber(Worked) = [issue |-> <<>>, start |-> 0, end |-> 0]
               /\ issue = <<>>
        /\ PlainWord(Stem(filename)) =>
               /\ outcome = "returned"
               /\ issue = <<>>
               /\ series = Stem(filename)

\* C3 witness: the lone word "#7", a "#" number, is not taken as the issue
C3_Witness ==
    /\ Returned
    /\ filename = <<"#", "7">>
    /\ issue = <<>>
    /\ series = <<"#", "7">>

\* C4: leading-zero normalization: in every result a non-empty issue does
\* not begin with ".", and begins with "0" only when it is "0" or the "0"
\* is followed by "."; token 007 gives "7", 000 gives "0", .5 gives "0.5".
C4_LeadingZeros ==
    Returned =>
        /\ issue # <<>> =>
               /\ issue[1] # "."
               /\ issue[1] = "0" => (issue = <<"0">> \/ (Len(issue) >= 2 /\ issue[2] = "."))
        /\ filename = Ex007 => issue = <<"7">>
        /\ filename = Ex000 => issue = <<"0">>
        /\ filename = ExPoint5 => issue = <<"0", ".", "5">>

\* C4 witness: the token ".5" was found and reported as "0.5"
C4_Witness ==
    /\ Returned
    /\ filename = ExPoint5
    /\ getIssueNumber(Worked).issue = <<".", "5">>
    /\ issue = <<"0", ".", "5">>

\* C5: the series of every result has no leading and no trailing
\* whitespace.  (Stated as claimed; "A  tpb" refutes it.)
C5_SeriesTrimmed ==
    Returned => series = Strip(series)

\* position of the first "--" or "__", whichever of the two comes first
FirstSeparator(s) ==
    LET hits == {i \in 1..Len(s) : StartsAt(s, DashDash, i) \/ StartsAt(s, UnderUnder, i)}
    IN  IF hits = {} THEN 0 ELSE MinOf(hits)

\* position of the first "--" when there is one, else of the first "__"
DashFirstSeparator(s) ==
    IF Contains(s, DashDash) THEN Find(s, DashDash) ELSE Find(s, UnderUnder)

\* the series the passes find in the text s
SeriesOf(s) == getSeriesName(s, getIssueNumber(s).start).series

\* the separator at position k of fname is the cut point: the remainder is
\* made of the text right of it, the series of the text up to it
CutsAt(fname, k) ==
    k > 0 =>
        /\ remainder = CleanRemainder(SubSeq(fname, k + 2, Len(fname)),
                                      year, issue_count, volume)
        /\ series = SeriesOf(SubSeq(fname, 1, k + 1))

\* C6 as claimed: the first "--" or "__", whichever comes first, is the cut
\* point.  ("A__B--C" refutes it.)
C6_FirstOfEitherCuts ==
    Returned => CutsAt(Worked, FirstSeparator(Worked))

\* C6 as amended: the first "--" is the cut point when the stem has a "--",
\* also when a "__" comes before it; the first "__" is the cut point only
\* when the stem has no "--".  The remainder is made of exactly the text
\* right of the cut point and the series takes no text from the right of it;
\* "Hero--extra junk here" gives a remainder containing "extra junk here".
C6_DashDashCutsFirst ==
    Returned =>
        /\ CutsAt(Worked, DashFirstSeparator(Worked))
        /\ filename = ExHero =>
               /\ series = <<"H", "e", "r", "o">>
               /\ Contains(remainder, <<"e", "x", "t", "r", "a", " ", "j", "u", "n", "k",
                                        " ", "h", "e", "r", "e">>)

\* C6 witness: "A__B--C" was cut at its "--", not at the "__" before it
C6_Witness ==
    /\ Returned
    /\ filename = ExUnderThenDash
    /\ remainder = <<"C">>
    /\ series = <<"A", " ", " ", "B">>

\* the number of places where p occurs in s
Occurrences(s, p) == Cardinality({i \in 1..Len(s) : StartsAt(s, p, i)})

\* w is u repaired as the claim says
RepairedAsClaimed(u, w) ==
    IF Occurrences(u, Enc28) >= 2 /\ Occurrences(u, Enc29) >= 2
    THEN /\ ~Contains(w, Enc28)
         /\ ~Contains(w, Enc29)
         /\ Occurrences(w, <<"(">>) = Occurrences(u, <<"(">>) + Occurrences(u, Enc28)
         /\ Occurrences(w, <<")">>) = Occurrences(u, <<")">>) + Occurrences(u, Enc29)
         /\ Len(w) = Len(u) - 2 * (Occurrences(u, Enc28) + Occurrences(u, Enc29))
    ELSE w = u

\* C7: the repair rewrites every "_28" to "(" and every "_29" to ")" if and
\* only if the decoded stem has at least two of each; otherwise the stem
\* goes to the later passes as it is.
C7_DoubleEncodingRepair ==
    calls > 0 =>
        /\ RepairedAsClaimed(Unquote(Stem(filename), 1), Worked)
        /\ filename = ExRepair /\ Returned => series = <<"X">>
        /\ filename = ExOne29 /\ Returned =>
               series = <<"X", " ", "2", "8", "a", " ", "2", "9", " ", "2", "8", "b">>

\* C7 witness: two "_28" and two "_29" were rewritten, and the
\* parenthesized spans so made dropped from the series
C7_Witness ==
    /\ Returned
    /\ filename = ExRepair
    /\ Worked = <<"X", "(", "a", ")", "(", "b", ")", " ", "#", "1">>
    /\ series = <<"X">>

\* length of the volume marker that ends the text s[1..r]: v, vol or vol.
\* in any letter case; 0 when there is none
MarkerLen(s, r) ==
    IF r >= 1 /\ s[r] \in {"v", "V"} THEN 1
    ELSE IF r >= 3 /\ LowerStr(SubSeq(s, r - 2, r)) = <<"v", "o", "l">> THEN 3
    ELSE IF r >= 4 /\ LowerStr(SubSeq(s, r - 3, r)) = <<"v", "o", "l", ".">> THEN 4
    ELSE 0

\* s[1..e] ends with a marker and digits: the digits are the volume, the
\* trimmed text before the marker is the series.  With needText the marker
\* must have text before it.
VolumeAsClaimed(s, e, r, needText) ==
    (MarkerLen(s, r) > 0 /\ (needText => r - MarkerLen(s, r) >= 1)) =>
        /\ volume = SubSeq(s, r + 1, e)
        /\ series = Strip(SubSeq(s, 1, r - MarkerLen(s, r)))

\* the same for a text s that ends in digits (trailing whitespace apart)
EndsInVolume(s, needText) ==
    LET solid == {i \in 1..Len(s) : ~IsSpace(s[i])}
        e     == IF solid = {} THEN 0 ELSE MaxOf(solid)
        nd    == {i \in 1..e : ~IsDigit(s[i])}
    IN  (e > 0 /\ IsDigit(s[e])) =>
            VolumeAsClaimed(s, e, IF nd = {} THEN 0 ELSE MaxOf(nd), needText)

\* the text before the issue token, separators normalized, parenthetical
\* phrases removed
TextBeforeIssue(fname, start) == RemoveParens(SeriesText(fname, start))

AllDigitText(s) == \A i \in 1..Len(s) : IsDigit(s[i])

VolumeClaim(fname, start, needText) ==
    /\ start # 0 => EndsInVolume(TextBeforeIssue(fname, start), needText)
    /\ AllDigitText(volume)

\* C8 as claimed: whenever the text before the issue token ends with
\* v<digits>, vol<digits> or vol.<digits>, the digits are the volume and
\* the trimmed text before the marker is the series; the volume is empty
\* or all digits.  ("v2 #5" refutes it.)
C8_VolumeMarker ==
    Returned => VolumeClaim(Worked, getIssueNumber(Worked).start, FALSE)

\* C8 as amended: the same when at least one character stands before the
\* marker; "Saga v2 #5" gives series "Saga", volume "2", issue "5".
C8_VolumeMarkerAfterText ==
    Returned =>
        /\ VolumeClaim(Worked, getIssueNumber(Worked).start, TRUE)
        /\ filename = ExSaga =>
               /\ series = <<"S", "a", "g", "a">>
               /\ volume = <<"2">>
               /\ issue = <<"5">>

\* C8 witness: "Saga v2 #5"
C8_Witness ==
    /\ Returned
    /\ filename = ExSaga
    /\ TextBeforeIssue(Worked, getIssueNumber(Worked).start) = <<"S", "a", "g", "a", " ", "v", "2", " ">>
    /\ series = <<"S", "a", "g", "a">>
    /\ volume = <<"2">>

IsSeparator(c) == c \in {"-", "_"}

\* the keyword "of", in any letter case, at position i of s
KeywordOf(s, i) ==
    i >= 1 /\ i + 1 <= Len(s) /\ LowerStr(SubSeq(s, i, i + 1)) = <<"o", "f">>
IsBlank(c) == IsSpace(c) \/ IsSeparator(c)

\* "of N" with N starting at i: whitespace or a separator before "of",
\* whitespace between "of" and N; after N whitespace, or with sepAfter a
\* separator as well, and then a separator may also stand between
OfNAt(s, i, sepAfter) ==
    /\ i >= 5 /\ IsDigit(s[i])
    /\ IF sepAfter THEN IsBlank(s[i - 1]) ELSE IsSpace(s[i - 1])
    /\ KeywordOf(s, i - 3) /\ IsBlank(s[i - 4])
    /\ LET e == RunEnd(s, i, AllDigits)
       IN  /\ e + 1 <= Len(s)
           /\ IF sepAfter THEN IsBlank(s[e + 1]) ELSE IsSpace(s[e + 1])

\* "(of N)" with N starting at i
ParenOfNAt(s, i, sepBetween) ==
    /\ i >= 5 /\ IsDigit(s[i])
    /\ IF sepBetween THEN IsBlank(s[i - 1]) ELSE IsSpace(s[i - 1])
    /\ KeywordOf(s, i - 3) /\ s[i - 4] = "("
    /\ LET e == RunEnd(s, i, AllDigits) IN e + 1 <= Len(s) /\ s[e + 1] = ")"

\* N, leading zeros stripped
CountAt(s, i) == LStripZeros(SubSeq(s, i, RunEnd(s, i, AllDigits)))

\* the text after the issue end offset (the end of the issue token, or the
\* length of the series when no issue was found)
TextAfterIssue(fname, num_end) ==
    Slice(fname, IssueEnd(num_end, series), Len(fname))

CountAsClaimed(s) ==
    LET found == {i \in 1..Len(s) : OfNAt(s, i, FALSE) \/ ParenOfNAt(s, i, FALSE)}
    IN  IF found # {} THEN \E i \in found : issue_count = CountAt(s, i)
        ELSE issue_count = <<>>

CountAsAmended(s) ==
    LET plain == {i \in 1..Len(s) : OfNAt(s, i, TRUE)}
        paren == {i \in 1..Len(s) : ParenOfNAt(s, i, TRUE)}
    IN  IF plain # {} THEN issue_count = CountAt(s, MinOf(plain))
        ELSE IF paren # {} THEN issue_count = CountAt(s, MinOf(paren))
        ELSE issue_count = <<>>

\* C9 as claimed: issue_count is N, leading zeros stripped, when the text
\* after the issue end offset has "of N" preceded by whitespace or a
\* separator and followed by whitespace, or "(of N)"; otherwise it is "".
\* ("A #1 of 2_x" refutes it.)
C9_IssueCount ==
    Returned => CountAsClaimed(TextAfterIssue(Worked, getIssueNumber(Worked).end))

\* C9 as amended: a separator (- or _) counts like whitespace after N and
\* between "of" and N too, and the first "of N" goes before any "(of N)";
\* "Batman (1940) #1 of 12 (1940)" gives issue_count "12" and issue "1".
C9_IssueCountSeparators ==
    Returned =>
        /\ CountAsAmended(TextAfterIssue(Worked, getIssueNumber(Worked).end))
        /\ filename = ExBatman => issue_count = <<"1", "2">> /\ issue = <<"1">>

\* C9 witness: in "A #1 of 2_x" the N is followed by a separator
C9_Witness ==
    /\ Returned
    /\ filename = ExCountSep
    /\ issue = <<"1">>
    /\ issue_count = <<"2">>

\* C10: the year of every result is empty or exactly four decimal digits.
\* (Stated as claimed; a group of four digits that are not all in 0-9
\* refutes it.)
C10_YearFourDigits ==
    Returned => (year = <<>> \/ (Len(year) = 4 /\ AllDigitText(year)))

---------------------------------------------------------------------------
(* C11: precedence of the issue candidates *)

\* \w of re on a str pattern
IsWordChar(c) == c \in Lower \cup Upper \cup AllDigits \cup {"_"}

\* the text w is, from position i on, a number ([0-9]*\.[0-9]+ or [0-9]+)
\* followed by word characters only, up to its end
NumberWithSuffix(w, i) ==
    \/ /\ i <= Len(w) /\ IsAsciiDigit(w[i])
       /\ \A j \in (i + 1)..Len(w) : IsWordChar(w[j])
    \/ \E d \in i..(Len(w) - 1) :
          /\ \A j \in i..(d - 1) : IsAsciiDigit(w[j])
          /\ w[d] = "." /\ IsAsciiDigit(w[d + 1])
          /\ \A j \in (d + 2)..Len(w) : IsWordChar(w[j])

\* the text w begins, at position i, with a number
BeginsNumber(w, i) ==
    /\ i <= Len(w)
    /\ \/ w[i] \in AsciiDigits
       \/ w[i] = "." /\ i + 1 <= Len(w) /\ w[i + 1] \in AsciiDigits

\* first tier: "#" + number + optional word-character suffix.  whole: the
\* word is of that form from its first to its last character; otherwise
\* the word begins with "#" + number and may go on with anything
HashNumberWord(w, whole) ==
    /\ Len(w) >= 2 /\ w[1] = "#"
    /\ IF whole THEN NumberWithSuffix(w, 2) ELSE BeginsNumber(w, 2)

\* third tier: "#" + any non-space characters
HashWord(w) == Len(w) >= 2 /\ w[1] = "#"

\* the words of the cleaned text after the first
CandidateWords(s) ==
    LET words == WordList(CleanForIssue(s), 1)
    IN  IF Len(words) > 1 THEN Tail(words) ELSE <<>>

\* what getIssueNumber returns for the word cw
Chosen(cw) ==
    [issue |-> IF cw.text[1] = "#" THEN Tail(cw.text) ELSE cw.text,
     start |-> cw.start, end |-> cw.end]

\* the precedence as claimed, over the candidate words cws
ClaimedPick(cws, whole) ==
    LET n      == Len(cws)
        first  == {k \in 1..n : HashNumberWord(cws[k].text, whole)}
        third  == {k \in 1..n : HashWord(cws[k].text)}
    IN  IF first # {} THEN Chosen(cws[MaxOf(first)])
        ELSE IF n > 0 /\ BeginsNumber(cws[n].text, 1) THEN Chosen(cws[n])
        ELSE IF third # {} THEN Chosen(cws[MaxOf(third)])
        ELSE [issue |-> <<>>, start |-> 0, end |-> 0]

\* C11 as claimed: over the words after the first, the rightmost word of
\* the form "#" + number + optional word-character suffix wins; failing
\* that the last word when it starts with a number; failing that the
\* rightmost "#" + non-space characters; failing all, ("", 0, 0).  (The
\* form read as the form of the whole word; "A #1! 7" refutes it: "#1!"
\* is chosen before the last word "7".)
C11_PrecedenceWholeWord ==
    calls > 0 =>
        getIssueNumber(Worked) = ClaimedPick(CandidateWords(Worked), TRUE)

\* C11: over the words after the first, the rightmost word that begins
\* with "#" + number wins, whatever follows the number in the word, also
\* over a bare number in last position; failing that the last word is
\* chosen when it begins with a number; failing that the rightmost word
\* "#" + non-space characters; failing all, the result is ("", 0, 0).
C11_Precedence ==
    calls > 0 =>
        getIssueNumber(Worked) = ClaimedPick(CandidateWords(Worked), FALSE)

\* C11 witness: "#5" was chosen although the last word is the number "7"
C11_Witness ==
    /\ Returned
    /\ filename = ExHashBeforeBare
    /\ Len(CandidateWords(Worked)) = 2
    /\ BeginsNumber(CandidateWords(Worked)[2].text, 1)
    /\ getIssueNumber(Worked) = [issue |-> <<"5">>, start |-> 2, end |-> 4]
    /\ issue = <<"5">>

---------------------------------------------------------------------------
(* C12: the offsets of the issue are offsets of the filename *)

\* the text s and what each cleaning step of lines 63-84, in turn, makes
\* of it
CleaningStages(s) ==
    LET truncated == TruncateAtSeparator(s)
        plusless  == PlusToSpace(truncated)
        parenless == BlankDelimited(plusless, "(", ")", 1)
        bare      == BlankDelimited(parenless, "[", "]", 1)
        spaced    == fixSpaces(bare, TRUE)
        countless == BlankOfCount(spaced, 1)
    IN  <<s, truncated, plusless, parenless, bare, spaced, countless>>

\* the text tok, without its leading "#" when it has one
WithoutHash(tok) == IF tok # <<>> /\ tok[1] = "#" THEN Tail(tok) ELSE tok

\* [a, b) is a whole word of the text s: non-space characters with a
\* space, or an end of s, on either side
IsWordOf(s, a, b) ==
    /\ 0 <= a /\ a < b /\ b <= Len(s)
    /\ \A i \in (a + 1)..b : ~IsSpace(s[i])
    /\ a > 0 => IsSpace(s[a])
    /\ b < Len(s) => IsSpace(s[b + 1])

\* the word r.issue at the offsets r.start, r.end, returned for the
\* filename fname whose cleaned copy is cleaned, is as claimed
OffsetsAsClaimed(fname, cleaned, r) ==
    /\ r.issue # <<>> =>
           /\ 0 < r.start /\ r.start < r.end /\ r.end <= Len(fname)
           /\ IsWordOf(cleaned, r.start, r.end)
           /\ Slice(fname, r.start, r.end) = Slice(cleaned, r.start, r.end)
           /\ WithoutHash(Slice(fname, r.start, r.end)) = r.issue
    /\ (r.start = 0) <=> (r.issue = <<>>)
    /\ r.issue = <<>> => r.end = 0

\* every stage has the length of the text s, and the last one is the
\* cleaned copy the words are listed from
StagesKeepLength(stages, s, cleaned) ==
    /\ \A k \in 1..Len(stages) : Len(stages[k]) = Len(s)
    /\ stages[Len(stages)] = cleaned

\* C12: offset stability: every cleaning step of getIssueNumber keeps the
\* length of the text; when an issue is found its offsets satisfy
\* 0 < start < end <= len(filename) and the slice [start, end) of the
\* uncleaned filename is the chosen word, leading "#" included; start is 0
\* exactly when no issue was found.
C12_OffsetStability ==
    calls > 0 =>
        /\ StagesKeepLength(CleaningStages(Worked), Worked, CleanForIssue(Worked))
        /\ OffsetsAsClaimed(Worked, CleanForIssue(Worked), getIssueNumber(Worked))

\* C12 witness: in "Amazing Spider-Man #50 (2020)" the cleaning blanked a
\* "-" and a parenthesis, and the issue's offsets still cut "#50" out of
\* the uncleaned text
C12_Witness ==
    /\ Returned
    /\ filename = ExSpiderMan
    /\ CleanForIssue(Worked) # Worked
    /\ getIssueNumber(Worked) = [issue |-> <<"5", "0">>, start |-> 19, end |-> 22]
    /\ Slice(Worked, 19, 22) = <<"#", "5", "0">>
    /\ issue = <<"5", "0">>

---------------------------------------------------------------------------
(* C13: the "of <digits>" annotation and the issue *)

\* an annotation "of <digits>", the keyword in any letter case, begins at
\* position i of the text s
OfDigitsAt(s, i) ==
    /\ KeywordOf(s, i)
    /\ i + 3 <= Len(s) /\ s[i + 2] = " " /\ IsDigit(s[i + 3])

\* the position of the last digit of the annotation that begins at i
OfDigitsEnd(s, i) == RunEnd(s, i + 3, AllDigits)

\* the annotation of fname that begins at position i is blank in the
\* cleaned text, and the word at [start, end), chosen as the issue iss,
\* takes nothing of it
AnnotationSkipped(fname, i, iss, start, end) ==
    /\ \A j \in i..OfDigitsEnd(fname, i) : CleanForIssue(fname)[j] = " "
    /\ iss # <<>> => (end < i \/ start >= OfDigitsEnd(fname, i))

\* C13: "of" is matched in any letter case when the issue number is
\* located: an annotation "of 12", "Of 12" or "OF 12" is blanked before
\* the words are listed, so its digits are never chosen as the issue.
\* (Stated as claimed; "A 1 OF 12" refutes it: the issue is "12".)
C13_OfAnyCaseBlanked ==
    calls > 0 =>
        \A i \in 1..Len(Worked) :
            OfDigitsAt(Worked, i) =>
                AnnotationSkipped(Worked, i, getIssueNumber(Worked).issue,
                                  getIssueNumber(Worked).start,
                                  getIssueNumber(Worked).end)

---------------------------------------------------------------------------
(* C14: the remainder when there is neither a separator nor an issue *)

\* the text s has neither "--" nor "__"
NoSeparator(s) == ~Contains(s, DashDash) /\ ~Contains(s, UnderUnder)

\* C14: when the stem contains neither "--" nor "__" and no issue number
\* was found, remainder is "", whatever the stem contains.  (Stated as
\* claimed; "A TPB" refutes it with remainder "TPB", "(x) A" with
\* remainder "x) A".)
C14_NoIssueNoRemainder ==
    Returned =>
        ((NoSeparator(Worked) /\ getIssueNumber(Worked).issue = <<>> /\ issue = <<>>)
            => remainder = <<>>)

---------------------------------------------------------------------------
(* C15: signed issue numbers *)

\* the word w is "#", "-" and ASCII digits
SignedHashNumber(w) ==
    /\ Len(w) >= 3 /\ w[1] = "#" /\ w[2] = "-"
    /\ \A i \in 3..Len(w) : IsAsciiDigit(w[i])

\* the text s is words of letters with a signed "#" number as its last,
\* and not its first, word
EndsInSignedIssue(s) ==
    /\ Len(WordList(s, 1)) >= 2
    /\ SignedHashNumber(WordList(s, 1)[Len(WordList(s, 1))].text)
    /\ \A k \in 1..(Len(WordList(s, 1)) - 1) : PlainWord(WordList(s, 1)[k].text)

\* the last word of the text s
LastWord(s) == WordList(s, 1)[Len(WordList(s, 1))]

\* C15: signed issue tokens are recognised: a word "#-<number>" that is
\* not the first word is matched as one token by the first tier and
\* returned without the "#" and with the sign, so "Series #-1" yields
\* issue "-1".  (Stated as claimed; "Series #-1" refutes it: the issue is
\* "1" and the series "Series #-".)
C15_SignedIssue ==
    calls > 0 =>
        /\ EndsInSignedIssue(Worked) =>
               /\ getIssueNumber(Worked).issue = Tail(LastWord(Worked).text)
               /\ getIssueNumber(Worked).start = LastWord(Worked).start
        /\ filename = ExSignedIssue => issue = <<"-", "1">>

====
